---- MODULE Spec2Model ----
(***************************************************************************)
(* Real-time update client of the genome workbench frontend: the two       *)
(* useWebSocket hooks of frontend/src/hooks/useWebSocket.js                *)
(*   variant "userId" : useWebSocket(userId), hosted by NotificationCenter *)
(*   variant "url"    : useWebSocket(url, options), hosted by              *)
(*                      BioinformaticsWorkspace                            *)
(* React (18) is modelled as follows.  A handler runs to completion and    *)
(* its setState calls are batched into the latest state (socket,           *)
(* isConnected, ...).  Render commits the latest state: the closures of    *)
(* the committed render capture rSocket / rIsConnected, and the effects    *)
(* whose dependencies changed run their cleanups and then their bodies.    *)
(* Transport events and timers may fire between a handler and the Render   *)
(* it caused.                                                              *)
(***************************************************************************)
EXTENDS Integers, Sequences, FiniteSets, TLC

\* ---------------------------------------------------------------- bounds
MaxSockets == 6
MaxSocketsUrl == 3
MaxPending == 2
MaxSent == 4
MaxSocketsCommands == 2
MaxSentCommands == 3
MaxSocketsRooms == 2
MaxSentRooms == 6
MaxNotifications == 52
MaxRead == 1
MaxFrames == 102
MaxEarly == 2

\* ------------------------------------------------------ program constants
maxReconnectAttemptsDefault == 5
NormalClosure == 1000
Null == 0

SocketIds == 1..(IF MaxSockets > MaxSocketsUrl THEN MaxSockets ELSE MaxSocketsUrl)
\* close codes a close event can carry: normal, going away, abnormal
CloseCodes == {NormalClosure, 1001, 1006}
\* options.maxReconnectAttempts: absent (0, falsy) or 2
OptionsMaxReconnectAttempts == {0, 2}
Rooms == <<"analysis_updates", "pipeline_updates">>
Msg(type, arg) == [type |-> type, arg |-> arg]

\* ---- inbound messages
FeedCap == 50
NotificationKinds ==
  <<"system_notification", "task_complete", "task_failed", "info", "success", "warning",
    "error">>
EntityKeys == {"A", "B"}
NoEntry == [status |-> "none", progress |-> "none"]
\* data payloads of task_update / workflow_update; "absent" marks a missing field
Payloads ==
  {[status |-> "running", progress |-> "absent"],
   [status |-> "absent", progress |-> "50"],
   [status |-> "completed", progress |-> "100"]}
\* the server numbers its notifications; the kind cycles with the number
Notification(id) ==
  [type |-> NotificationKinds[(id % 7) + 1], id |-> id, read |-> FALSE]
MarkedRead(ok, id) ==
  [type |-> "notification_marked_read", success |-> ok, notification_id |-> id]
TaskUpdate(k, d) == [type |-> "task_update", task_id |-> k, data |-> d]
WorkflowUpdate(k, d) == [type |-> "workflow_update", workflow_id |-> k, data |-> d]

\* ---- inbound frames (event.data) and JSON.parse
\* text that is not JSON
Garbage == [valid |-> FALSE, value |-> [none |-> TRUE]]
\* the text JSON.stringify(v)
JsonFrame(v) == [valid |-> TRUE, value |-> v]
\* the JSON value null, and an object without a `type` member
JsonNull == [jsonNull |-> TRUE]
NoTypeObject == [data |-> "x"]
BadFrames == {Garbage, JsonFrame(JsonNull), JsonFrame(NoTypeObject)}
\* message.type: throws on null, undefined when the member is missing
IsNull(v) == "jsonNull" \in DOMAIN v
TypeOf(v) == IF "type" \in DOMAIN v THEN v.type ELSE "undefined"
\* what a frame is, for the record of the last frame received
FrameKind(frame) ==
  IF ~frame.valid THEN "garbage"
  ELSE IF IsNull(frame.value) THEN "null"
  ELSE IF TypeOf(frame.value) = "undefined" THEN "notype"
  ELSE TypeOf(frame.value)

\* the messages the url hook's server sends, numbered; the type cycles
UrlTypes == <<"analysis_update", "pong", "error", "room_info">>
UrlMessage(n) ==
  [type |-> UrlTypes[(n % 4) + 1], seq |-> n, message |-> "server error"]

VARIABLES
  variant,               \* which hook: "userId" or "url"
  urlOk,                 \* connect() gets a transport: userId is set and new WebSocket does not
                         \* throw (userId hook); buildUrl and new WebSocket do not throw (url hook)
  maxReconnectAttempts,  \* the ceiling of the instance
  phase,                 \* "new", "mounted", "unmounted"
  readyState,            \* WebSocket.readyState of every transport created
  socket,                \* React state `socket` (latest value)
  isConnected,           \* React state `isConnected` (latest value)
  connectionError,       \* React state `connectionError` (url hook)
  rSocket,               \* `socket` as captured by the committed render
  rIsConnected,          \* `isConnected` as captured by the committed render
  effSocket,             \* `socket` captured by the host's room effect
  reconnectAttempts,     \* reconnectAttempts(Ref).current
  timers,                \* number of pending reconnect timeouts
  lastDelay,             \* the delay (ms) of the retry armed last since the last onopen
  reconnectTimeoutRef,   \* reconnectTimeoutRef.current (url hook): "null", the handle of a
                         \* "pending" timeout, or the handle of one that has "fired"
  heartbeats,            \* running startHeartbeat intervals (named by their ws)
  heartbeatTimeoutRef,   \* heartbeatTimeoutRef.current (url hook)
  sent,                  \* frames handed to each transport while OPEN
  retriesSinceOpen,      \* retries armed since the last onopen (counted up to 2)
  reopened,              \* the last onopen found a non-zero attempt counter
  userDisconnected,      \* the caller invoked disconnect() and not connect() since
  notifications,         \* React state `notifications`: the feed, newest first
  taskUpdates,           \* React state `taskUpdates`
  workflowUpdates,       \* React state `workflowUpdates`
  nextId,                \* notifications the server has numbered so far
  lastSeen,              \* per kind and key, the data of the last update message processed
  prevSeen,              \* per kind and key, the data of the update message before the last
  messageHistory,        \* React state `messageHistory` (url hook)
  lastMessage,           \* React state `lastMessage` (url hook): << >> for null, or the
                         \* data of one frame
  parsed,                \* frames JSON.parse has accepted so far (url hook)
  received,              \* the values of those frames, in arrival order
  lastFrame,             \* the kind of the last frame a message event delivered
  asked,                 \* topics the caller has subscribed to, in call order
  activeAtOpen,          \* `asked` at the moment the last transport reached OPEN
  lastSend               \* the last sendMessage call: what it found, did and returned

vars == <<variant, urlOk, maxReconnectAttempts, phase, readyState, socket, isConnected,
          connectionError, rSocket, rIsConnected, effSocket, reconnectAttempts, timers,
          lastDelay, reconnectTimeoutRef, heartbeats, heartbeatTimeoutRef, sent, retriesSinceOpen,
          reopened, userDisconnected, notifications, taskUpdates, workflowUpdates, nextId,
          lastSeen, prevSeen, messageHistory, lastMessage, parsed, received, lastFrame, asked,
          activeAtOpen, lastSend>>

cfgVars == <<variant, urlOk, maxReconnectAttempts>>
projVars == <<notifications, taskUpdates, workflowUpdates, nextId, lastSeen, prevSeen,
              messageHistory, lastMessage, parsed, received, lastFrame>>
cmdVars == <<asked, lastSend>>
renderVars == <<rSocket, rIsConnected, effSocket>>

\* ------------------------------------------------------------ the "world"
\* The mutable cells a handler touches, threaded through the calls it makes.
World ==
  [rs |-> readyState, sock |-> socket, conn |-> isConnected, err |-> connectionError,
   att |-> reconnectAttempts, timers |-> timers, delay |-> lastDelay,
   tref |-> reconnectTimeoutRef,
   hbs |-> heartbeats, href |-> heartbeatTimeoutRef, sent |-> sent,
   live |-> (phase # "unmounted"), ovf |-> FALSE,
   rso |-> retriesSinceOpen, reo |-> reopened]

Commit(w) ==
  /\ ~w.ovf
  /\ readyState' = w.rs
  /\ socket' = w.sock
  /\ isConnected' = w.conn
  /\ connectionError' = w.err
  /\ reconnectAttempts' = w.att
  /\ timers' = w.timers
  /\ lastDelay' = w.delay
  /\ reconnectTimeoutRef' = w.tref
  /\ heartbeats' = w.hbs
  /\ heartbeatTimeoutRef' = w.href
  /\ sent' = w.sent
  /\ retriesSinceOpen' = w.rso
  /\ reopened' = w.reo

\* setState on an unmounted component is ignored by React
setSocket(w, s) == IF w.live THEN [w EXCEPT !.sock = s] ELSE w
setIsConnected(w, b) == IF w.live THEN [w EXCEPT !.conn = b] ELSE w
setConnectionError(w, e) == IF w.live THEN [w EXCEPT !.err = e] ELSE w

Created(rs) == {s \in SocketIds : rs[s] # "NONE"}
Live(rs) == {s \in SocketIds : rs[s] \in {"CONNECTING", "OPEN"}}
Pending(rs) == {s \in SocketIds : rs[s] \in {"CONNECTING", "OPEN", "CLOSING"}}

\* new WebSocket(wsUrl): the next transport, in CONNECTING
NewWebSocket(w) ==
  LET n == Cardinality(Created(w.rs)) + 1 IN
  IF n > (IF variant = "userId" THEN MaxSockets ELSE MaxSocketsUrl) \/ Cardinality(Pending(w.rs)) >= MaxPending THEN [w EXCEPT !.ovf = TRUE]
  ELSE [w EXCEPT !.rs[n] = "CONNECTING"]

\* WebSocket.close(): CONNECTING/OPEN -> CLOSING, otherwise nothing
WsClose(w, s) ==
  IF w.rs[s] \in {"CONNECTING", "OPEN"} THEN [w EXCEPT !.rs[s] = "CLOSING"] ELSE w

\* WebSocket.send() on an OPEN transport transmits the frame; on a CLOSING or
\* CLOSED transport the browser discards it
WsSend(w, s, m) ==
  IF w.rs[s] # "OPEN" THEN w
  ELSE IF Len(w.sent[s]) >= MaxSent THEN [w EXCEPT !.ovf = TRUE]
  ELSE [w EXCEPT !.sent[s] = Append(@, m)]

\* ---------------------------------------------------------------- connect
connectUserId(w) == IF urlOk THEN NewWebSocket(w) ELSE w

connectUrl(w) ==
  IF urlOk THEN NewWebSocket(w)
  ELSE setIsConnected(setConnectionError(w, "Failed to establish connection"), FALSE)

connect(w) == IF variant = "userId" THEN connectUserId(w) ELSE connectUrl(w)

\* ------------------------------------------------------------- disconnect
\* `cap` is the socket captured by the closure that is called
disconnectUserId(w, cap) ==
  IF cap # Null
  THEN setIsConnected(setSocket(WsClose(w, cap), Null), FALSE)
  ELSE w

disconnectUrl(w, cap) ==
  LET w1 == IF w.tref # "null"
            THEN [w EXCEPT !.timers = IF w.tref = "pending" THEN @ - 1 ELSE @,
                           !.tref = "null"]
            ELSE w
      w2 == IF w1.href # Null
            THEN [w1 EXCEPT !.hbs = @ \ {w1.href}, !.href = Null] ELSE w1
      w3 == IF cap # Null THEN WsClose(w2, cap) ELSE w2
  IN setIsConnected(setSocket(w3, Null), FALSE)

disconnect(w, cap) ==
  IF variant = "userId" THEN disconnectUserId(w, cap) ELSE disconnectUrl(w, cap)

\* ----------------------------------------------------------------- onopen
startHeartbeat(w, s) == [w EXCEPT !.href = s, !.hbs = @ \cup {s}]

\* faulty variant: onopen forgets to reset the attempt counter
onopenUserId_NoReset(w, s) ==
  [setSocket(setIsConnected(w, TRUE), s) EXCEPT !.rso = 0, !.delay = 0, !.reo = (w.att > 0)]

onopenUserId(w, s) ==
  [setSocket(setIsConnected(w, TRUE), s) EXCEPT !.att = 0, !.rso = 0, !.delay = 0, !.reo = (w.att > 0)]

onopenUrl(w, s) ==
  LET w1 == setConnectionError(setIsConnected(setSocket(w, s), TRUE), "null")
  IN startHeartbeat([w1 EXCEPT !.att = 0, !.rso = 0, !.delay = 0, !.reo = (w.att > 0)], s)

onopen(w, s) == IF variant = "userId" THEN onopenUserId(w, s) ELSE onopenUrl(w, s)

\* ---------------------------------------------------------------- onclose
RECURSIVE Pow(_, _)
Pow(b, n) == IF n = 0 THEN 1 ELSE b * Pow(b, n - 1)

\* options.reconnectInterval || 3000
reconnectInterval == 3000

\* the second argument of setTimeout; n is the counter after the increment
reconnectDelay(n) ==
  IF variant = "userId" THEN Pow(2, n) * 1000 ELSE reconnectInterval * n

ScheduleReconnect(w) ==
  [w EXCEPT !.att = @ + 1, !.timers = @ + 1, !.rso = IF @ < 2 THEN @ + 1 ELSE @,
            !.delay = reconnectDelay(w.att + 1)]

\* faulty variant: the ceiling test is off by one
oncloseUserId_OffByOne(w, s) ==
  LET w1 == setSocket(setIsConnected(w, FALSE), Null) IN
  IF w1.att <= maxReconnectAttempts THEN ScheduleReconnect(w1) ELSE w1

oncloseUserId(w, s) ==
  LET w1 == setSocket(setIsConnected(w, FALSE), Null) IN
  IF w1.att < maxReconnectAttempts THEN ScheduleReconnect(w1) ELSE w1

oncloseUrl(w, s, code) ==
  LET w1 == setIsConnected(setSocket(w, Null), FALSE)
      w2 == IF w1.href # Null
            THEN [w1 EXCEPT !.hbs = @ \ {w1.href}, !.href = Null] ELSE w1
  IN IF code # NormalClosure /\ w2.att < maxReconnectAttempts
     THEN [ScheduleReconnect(w2) EXCEPT !.tref = "pending"]
     ELSE IF w2.att >= maxReconnectAttempts
          THEN setConnectionError(w2, "Max reconnection attempts reached")
          ELSE w2

onclose(w, s, code) ==
  IF variant = "userId" THEN oncloseUserId(w, s) ELSE oncloseUrl(w, s, code)

\* ---------------------------------------------------------------- onerror
onerror(w) ==
  IF variant = "userId" THEN w
  ELSE setIsConnected(setConnectionError(w, "Connection error occurred"), FALSE)

\* ------------------------------------------------------------ sendMessage
\* `cap`, `capConn`: socket and isConnected captured by the closure called
sendMessageUserId(w, cap, capConn, m) ==
  IF cap # Null /\ capConn THEN WsSend(w, cap, m) ELSE w

sendMessageUrl(w, cap, m) ==
  IF cap # Null /\ w.rs[cap] = "OPEN" THEN WsSend(w, cap, m) ELSE w

\* what the call returns to its caller
sendResultUserId(w, cap, capConn) == "undefined"
sendResultUrl(w, cap) == IF cap # Null /\ w.rs[cap] = "OPEN" THEN "true" ELSE "false"
\* what a call that transmitted returns
SuccessResult == IF variant = "userId" THEN "undefined" ELSE "true"
NoSend ==
  [called |-> FALSE, type |-> "none", open |-> FALSE, transmitted |-> FALSE, result |-> "none"]

joinRoom(w, cap, room) == sendMessageUrl(w, cap, Msg("join_room", room))
\* faulty variant: leaveRoom sends the join message
leaveRoom_Join(w, cap, room) == sendMessageUrl(w, cap, Msg("join_room", room))

leaveRoom(w, cap, room) == sendMessageUrl(w, cap, Msg("leave_room", room))

\* ---------------------------------------------------------- handleMessage
Min(a, b) == IF a < b THEN a ELSE b
\* prev.slice(0, n)
Slice0(seq, n) == SubSeq(seq, 1, Min(n, Len(seq)))

Projection == [notifications |-> notifications, taskUpdates |-> taskUpdates,
               workflowUpdates |-> workflowUpdates]

\* faulty variant: the slice keeps 50 of the previous entries
Prepend_Slice50(prev, message) == <<message>> \o Slice0(prev, 50)

\* [message, ...prev.slice(0, 49)]
Prepend(prev, message) == <<message>> \o Slice0(prev, 49)

\* faulty variant: the new payload is merged into the previous one field by field
Upsert_Merge(prev, key, data) ==
  [prev EXCEPT ![key] =
     [status |-> IF data.status = "absent" THEN @.status ELSE data.status,
      progress |-> IF data.progress = "absent" THEN @.progress ELSE data.progress]]

\* { ...prev, [key]: data }
Upsert(prev, key, data) == [prev EXCEPT ![key] = data]

\* faulty variant: every entry is marked, whatever its id
MarkRead_All(prev, id) ==
  [i \in 1..Len(prev) |-> [prev[i] EXCEPT !.read = TRUE]]

\* prev.map(notif => notif.id === id ? { ...notif, read: true } : notif)
MarkRead(prev, id) ==
  [i \in 1..Len(prev) |-> IF prev[i].id = id THEN [prev[i] EXCEPT !.read = TRUE] ELSE prev[i]]

IsNotificationKind(t) == \E i \in 1..Len(NotificationKinds) : NotificationKinds[i] = t

\* faulty variant: the default case falls into the notification case
handleMessage_DefaultNotifies(p, message) ==
  IF TypeOf(message) = "initial_notifications"
    THEN [p EXCEPT !.notifications = message.notifications]
  ELSE IF TypeOf(message) = "task_update"
    THEN [p EXCEPT !.taskUpdates = Upsert(@, message.task_id, message.data)]
  ELSE IF TypeOf(message) = "workflow_update"
    THEN [p EXCEPT !.workflowUpdates = Upsert(@, message.workflow_id, message.data)]
  ELSE IF TypeOf(message) = "notification_marked_read"
    THEN IF message.success
         THEN [p EXCEPT !.notifications = MarkRead(@, message.notification_id)]
         ELSE p
  ELSE IF TypeOf(message) \in {"connection_established", "subscription_confirmed", "pong"}
    THEN p
  ELSE [p EXCEPT !.notifications = Prepend(@, message)]

handleMessage(p, message) ==
  IF TypeOf(message) = "initial_notifications"
    THEN [p EXCEPT !.notifications = message.notifications]
  ELSE IF TypeOf(message) = "task_update"
    THEN [p EXCEPT !.taskUpdates = Upsert(@, message.task_id, message.data)]
  ELSE IF TypeOf(message) = "workflow_update"
    THEN [p EXCEPT !.workflowUpdates = Upsert(@, message.workflow_id, message.data)]
  ELSE IF IsNotificationKind(TypeOf(message))
    THEN [p EXCEPT !.notifications = Prepend(@, message)]
  ELSE IF TypeOf(message) = "notification_marked_read"
    THEN IF message.success
         THEN [p EXCEPT !.notifications = MarkRead(@, message.notification_id)]
         ELSE p
  ELSE p   \* connection_established, subscription_confirmed, pong, unknown: logged

\* newSocket.onmessage (userId hook):
\* try { handleMessage(JSON.parse(event.data)) } catch { log }
onmessageUserId(p, frame) ==
  IF ~frame.valid THEN p                 \* JSON.parse throws
  ELSE IF IsNull(frame.value) THEN p     \* message.type throws in handleMessage
  ELSE handleMessage(p, frame.value)

HistoryCap == 100
\* seq.slice(-n)
SliceLast(seq, n) == SubSeq(seq, Len(seq) - Min(n, Len(seq)) + 1, Len(seq))

\* faulty variant: the history keeps the first 100 messages
onmessageUrl_KeepFirst(h, frame) ==
  IF ~frame.valid THEN h
  ELSE LET h1 == [h EXCEPT !.last = <<frame>>,
                           !.history = Slice0(Append(@, frame.value), HistoryCap)]
       IN IF IsNull(frame.value) THEN h1
          ELSE IF TypeOf(frame.value) = "error" THEN [h1 EXCEPT !.err = frame.value.message]
          ELSE h1

\* ws.onmessage (url hook); h holds messageHistory, lastMessage, connectionError
onmessageUrl(h, frame) ==
  IF ~frame.valid THEN h                 \* JSON.parse throws
  ELSE LET h1 == [h EXCEPT !.last = <<frame>>,
                           !.history = SliceLast(Append(@, frame.value), HistoryCap)]
       IN IF IsNull(frame.value) THEN h1 \* message.type throws after the setState calls
          ELSE IF TypeOf(frame.value) = "pong" THEN h1
          ELSE IF TypeOf(frame.value) = "error" THEN [h1 EXCEPT !.err = frame.value.message]
          ELSE h1

\* ------------------------------------------------------------------ Init
Init ==
  /\ variant \in {"userId", "url"}
  /\ urlOk \in BOOLEAN
  /\ maxReconnectAttempts \in
       IF variant = "userId" THEN {maxReconnectAttemptsDefault}
       ELSE {IF o # 0 THEN o ELSE maxReconnectAttemptsDefault : o \in OptionsMaxReconnectAttempts}
  /\ phase = "new"
  /\ readyState = [s \in SocketIds |-> "NONE"]
  /\ socket = Null
  /\ isConnected = FALSE
  /\ connectionError = "null"
  /\ rSocket = Null
  /\ rIsConnected = FALSE
  /\ effSocket = Null
  /\ reconnectAttempts = 0
  /\ timers = 0
  /\ lastDelay = 0
  /\ reconnectTimeoutRef = "null"
  /\ heartbeats = {}
  /\ heartbeatTimeoutRef = Null
  /\ sent = [s \in SocketIds |-> << >>]
  /\ retriesSinceOpen = 0
  /\ reopened = FALSE
  /\ userDisconnected = FALSE
  /\ notifications = << >>
  /\ taskUpdates = [k \in EntityKeys |-> NoEntry]
  /\ workflowUpdates = [k \in EntityKeys |-> NoEntry]
  /\ nextId = 0
  /\ lastSeen = [kind \in {"task", "workflow"} |-> [k \in EntityKeys |-> NoEntry]]
  /\ prevSeen = [kind \in {"task", "workflow"} |-> [k \in EntityKeys |-> NoEntry]]
  /\ messageHistory = << >>
  /\ lastMessage = << >>
  /\ parsed = 0
  /\ received = << >>
  /\ lastFrame = "none"
  /\ asked = << >>
  /\ activeAtOpen = << >>
  /\ lastSend = NoSend

\* ------------------------------------------------- React commit and effects
\* the host's room effect (BioinformaticsWorkspace), deps [isConnected]
RoomEffectCleanup(w) ==
  IF rIsConnected
  THEN leaveRoom(leaveRoom(w, effSocket, Rooms[1]), effSocket, Rooms[2])
  ELSE w

RoomEffect(w, capSock, capConn) ==
  IF capConn
  THEN joinRoom(joinRoom(w, capSock, Rooms[1]), capSock, Rooms[2])
  ELSE w

\* first commit: the effects run for the first time
Mount ==
  /\ phase = "new"
  /\ phase' = "mounted"
  /\ Commit(connect(World))
  /\ UNCHANGED <<cfgVars, projVars, cmdVars, activeAtOpen, rSocket, rIsConnected, effSocket, userDisconnected>>

\* re-render after a state change: cleanups of the effects whose deps changed,
\* then their bodies
RenderUserId ==
  LET w1 == IF socket # rSocket THEN disconnectUserId(World, rSocket) ELSE World
      w2 == IF socket # rSocket THEN connectUserId(w1) ELSE w1
  IN Commit(w2) /\ UNCHANGED effSocket

RenderUrl ==
  LET w1 == IF socket # rSocket THEN disconnectUrl(World, rSocket) ELSE World
      w2 == IF isConnected # rIsConnected THEN RoomEffectCleanup(w1) ELSE w1
      w3 == IF isConnected # rIsConnected THEN RoomEffect(w2, socket, isConnected) ELSE w2
  IN /\ Commit(w3)
     /\ effSocket' = IF isConnected # rIsConnected THEN socket ELSE effSocket

Render ==
  /\ phase = "mounted"
  /\ socket # rSocket \/ isConnected # rIsConnected
  /\ IF variant = "userId" THEN RenderUserId ELSE RenderUrl
  /\ rSocket' = socket
  /\ rIsConnected' = isConnected
  /\ UNCHANGED <<cfgVars, projVars, cmdVars, activeAtOpen, phase, userDisconnected>>

\* unmount: every effect's cleanup runs, state updates are dropped
Unmount ==
  /\ phase = "mounted"
  /\ phase' = "unmounted"
  /\ LET w0 == [World EXCEPT !.live = FALSE]
         w1 == IF variant = "userId" THEN disconnectUserId(w0, rSocket)
               ELSE RoomEffectCleanup(disconnectUrl(disconnectUrl(w0, Null), rSocket))
     IN Commit(w1)
  /\ UNCHANGED <<cfgVars, projVars, cmdVars, activeAtOpen, rSocket, rIsConnected, effSocket, userDisconnected>>

\* ------------------------------------------------------- caller operations
Connect ==
  /\ phase = "mounted"
  /\ Commit(connect(World))
  /\ userDisconnected' = FALSE
  /\ UNCHANGED <<cfgVars, projVars, cmdVars, activeAtOpen, phase, rSocket, rIsConnected,
                 effSocket>>

Disconnect ==
  /\ phase = "mounted"
  /\ Commit(disconnect(World, rSocket))
  /\ userDisconnected' = TRUE
  /\ UNCHANGED <<cfgVars, projVars, cmdVars, activeAtOpen, phase, rSocket, rIsConnected,
                 effSocket>>

\* -------------------------------------------------------- transport events
TransportOpen(s) ==
  /\ readyState[s] = "CONNECTING"
  /\ Commit(onopen([World EXCEPT !.rs[s] = "OPEN"], s))
  /\ activeAtOpen' = asked
  /\ UNCHANGED <<cfgVars, projVars, cmdVars, phase, rSocket, rIsConnected,
                 effSocket, userDisconnected>>

\* the connection fails (also during the closing handshake): an error event
\* and then a close event, in one task
TransportFail(s) ==
  /\ readyState[s] \in {"CONNECTING", "OPEN", "CLOSING"}
  /\ Commit(onclose(onerror([World EXCEPT !.rs[s] = "CLOSED"]), s, 1006))
  /\ UNCHANGED <<cfgVars, projVars, cmdVars, activeAtOpen, phase, rSocket, rIsConnected,
                 effSocket, userDisconnected>>

\* a close event without an error event: the peer closed, or the closing
\* handshake started by close() ended (cleanly or not)
TransportClose(s, code) ==
  /\ readyState[s] \in {"OPEN", "CLOSING"}
  /\ Commit(onclose([World EXCEPT !.rs[s] = "CLOSED"], s, code))
  /\ UNCHANGED <<cfgVars, projVars, cmdVars, activeAtOpen, phase, rSocket, rIsConnected,
                 effSocket, userDisconnected>>

\* ------------------------------------------------------------------ timers
\* a pending timeout fires: the one reconnectTimeoutRef holds (held) or one
\* whose handle was overwritten or never kept
ReconnectTimer(held) ==
  /\ IF held THEN variant = "url" /\ reconnectTimeoutRef = "pending"
             ELSE timers > (IF reconnectTimeoutRef = "pending" THEN 1 ELSE 0)
  /\ Commit(connect([World EXCEPT !.timers = @ - 1,
                                  !.tref = IF held THEN "fired" ELSE @]))
  /\ UNCHANGED <<cfgVars, projVars, cmdVars, activeAtOpen, phase, rSocket, rIsConnected,
                 effSocket, userDisconnected>>

\* ------------------------------------------------------ heartbeat timers
\* the intervals that send pings, named by the transport their callback uses:
\* the ping effect's interval of the committed render (userId hook, deps
\* [isConnected, sendMessage]) or the startHeartbeat intervals (url hook)
HeartbeatTimers ==
  IF variant = "userId"
  THEN IF phase = "mounted" /\ rIsConnected THEN {rSocket} ELSE {}
  ELSE heartbeats

Ping == Msg("ping", "timestamp")

\* the callback of the ping effect's interval (userId hook): sendMessage of
\* the render that created the interval
pingTickUserId(w) == sendMessageUserId(w, rSocket, rIsConnected, Ping)

\* the callback of startHeartbeat's interval for ws (url hook)
heartbeatTickUrl(w, ws) == IF w.rs[ws] = "OPEN" THEN WsSend(w, ws, Ping) ELSE w

\* an interval ticks
HeartbeatTick(s) ==
  /\ s \in HeartbeatTimers
  /\ Commit(IF variant = "userId" THEN pingTickUserId(World) ELSE heartbeatTickUrl(World, s))
  /\ UNCHANGED <<cfgVars, projVars, cmdVars, activeAtOpen, phase, rSocket, rIsConnected,
                 effSocket, userDisconnected>>

\* --------------------------------------------------------- inbound frames
\* a message event on an OPEN transport of the userId hook: newSocket.onmessage
\* parses the frame and hands the message to handleMessage; state updates of
\* an unmounted component are dropped
OnMessage(s, message) ==
  /\ variant = "userId"
  /\ readyState[s] = "OPEN"
  /\ LET p == IF phase = "unmounted" THEN Projection
              ELSE onmessageUserId(Projection, JsonFrame(message))
     IN /\ notifications' = p.notifications
        /\ taskUpdates' = p.taskUpdates
        /\ workflowUpdates' = p.workflowUpdates
  /\ lastFrame' = FrameKind(JsonFrame(message))
  /\ UNCHANGED <<messageHistory, lastMessage, parsed, received>>
  /\ nextId' = IF IsNotificationKind(message.type) THEN message.id ELSE nextId
  /\ lastSeen' =
       IF message.type = "task_update"
         THEN [lastSeen EXCEPT !["task"][message.task_id] = message.data]
       ELSE IF message.type = "workflow_update"
         THEN [lastSeen EXCEPT !["workflow"][message.workflow_id] = message.data]
       ELSE lastSeen
  /\ prevSeen' =
       IF message.type = "task_update"
         THEN [prevSeen EXCEPT !["task"][message.task_id] = lastSeen["task"][message.task_id]]
       ELSE IF message.type = "workflow_update"
         THEN [prevSeen EXCEPT !["workflow"][message.workflow_id] =
                                 lastSeen["workflow"][message.workflow_id]]
       ELSE prevSeen
  /\ UNCHANGED <<cfgVars, renderVars, phase, readyState, socket, isConnected,
                 connectionError, reconnectAttempts, timers, lastDelay, reconnectTimeoutRef,
                 heartbeats, heartbeatTimeoutRef, sent, retriesSinceOpen, reopened,
                 userDisconnected, cmdVars, activeAtOpen>>

\* the server pushes its next notification
NotificationFrame(s) ==
  /\ nextId < MaxNotifications
  /\ OnMessage(s, Notification(nextId + 1))

\* the server acknowledges (or refuses) a mark-read request
MarkedReadFrame(s, ok, id) ==
  /\ Cardinality({i \in 1..Len(notifications) : notifications[i].read}) < MaxRead
  /\ OnMessage(s, MarkedRead(ok, id))

UpdateFrame(s, kind, k, d) ==
  OnMessage(s, IF kind = "task" THEN TaskUpdate(k, d) ELSE WorkflowUpdate(k, d))

\* messages that carry nothing but their type: those handleMessage only logs,
\* and one whose type it does not know
PlainTypes == {"connection_established", "subscription_confirmed", "pong", "mystery"}
PlainFrame(s, type) ==
  /\ type \in PlainTypes
  /\ OnMessage(s, [type |-> type])

\* initial_notifications, sent by the server when the connection starts; the
\* records of its list are numbered apart from the later notifications
InitialSizes == {0, 3, 51}
InitialList(k) == [i \in 1..k |-> Notification(1000 + i)]
InitialNotificationsFrame(s, k) ==
  /\ nextId < MaxEarly
  /\ k \in InitialSizes
  /\ OnMessage(s, [type |-> "initial_notifications", notifications |-> InitialList(k)])

\* a message event of the userId hook whose frame is not a message
BadFrameUserId(s, frame) ==
  /\ variant = "userId"
  /\ readyState[s] = "OPEN"
  /\ frame \in BadFrames
  /\ LET p == IF phase = "unmounted" THEN Projection ELSE onmessageUserId(Projection, frame)
     IN /\ notifications' = p.notifications
        /\ taskUpdates' = p.taskUpdates
        /\ workflowUpdates' = p.workflowUpdates
  /\ lastFrame' = FrameKind(frame)
  /\ UNCHANGED <<cfgVars, renderVars, phase, readyState, socket, isConnected,
                 connectionError, reconnectAttempts, timers, lastDelay, reconnectTimeoutRef,
                 heartbeats, heartbeatTimeoutRef, sent, retriesSinceOpen, reopened,
                 userDisconnected, cmdVars, activeAtOpen, nextId, lastSeen, prevSeen,
                 messageHistory, lastMessage, parsed, received>>

\* a message event on an OPEN transport of the url hook: ws.onmessage; state
\* updates of an unmounted component are dropped
OnMessageUrl(s, frame) ==
  /\ variant = "url"
  /\ readyState[s] = "OPEN"
  /\ LET h0 == [history |-> messageHistory, last |-> lastMessage, err |-> connectionError]
         h == IF phase = "unmounted" THEN h0 ELSE onmessageUrl(h0, frame)
     IN /\ messageHistory' = h.history
        /\ lastMessage' = h.last
        /\ connectionError' = h.err
  /\ parsed' = IF frame.valid THEN parsed + 1 ELSE parsed
  /\ received' = IF frame.valid THEN Append(received, frame.value) ELSE received
  /\ lastFrame' = FrameKind(frame)
  /\ UNCHANGED <<cfgVars, renderVars, phase, readyState, socket, isConnected,
                 reconnectAttempts, timers, lastDelay, reconnectTimeoutRef,
                 heartbeats, heartbeatTimeoutRef, sent, retriesSinceOpen, reopened,
                 userDisconnected, cmdVars, activeAtOpen, notifications, taskUpdates,
                 workflowUpdates, nextId, lastSeen, prevSeen>>

\* the server sends its next message
UrlFrame(s) ==
  /\ parsed < MaxFrames
  /\ OnMessageUrl(s, JsonFrame(UrlMessage(parsed + 1)))

\* a frame that is not a message arrives among the first frames
BadFrameUrl(s, frame) ==
  /\ parsed < MaxEarly
  /\ frame \in BadFrames
  /\ OnMessageUrl(s, frame)

\* ------------------------------------------------- caller's send operations
\* sendMessage(m) through the closure of the committed render
sendMessage(w, m) ==
  IF variant = "userId" THEN sendMessageUserId(w, rSocket, rIsConnected, m)
  ELSE sendMessageUrl(w, rSocket, m)

SendMessage(m) ==
  /\ phase = "mounted"
  /\ LET w == sendMessage(World, m) IN
       /\ Commit(w)
       /\ lastSend' =
            [called |-> TRUE,
             type |-> m.type,
             open |-> (\E s \in SocketIds : readyState[s] = "OPEN"),
             transmitted |-> (w.sent # sent),
             result |-> IF variant = "userId"
                        THEN sendResultUserId(World, rSocket, rIsConnected)
                        ELSE sendResultUrl(World, rSocket)]
  /\ UNCHANGED <<cfgVars, projVars, renderVars, phase, userDisconnected, activeAtOpen>>

\* the frame a subscription to a topic puts on the wire
SubscribeMsg(topic) ==
  IF topic.kind = "task" THEN Msg("subscribe_task", topic.id)
  ELSE IF topic.kind = "workflow" THEN Msg("subscribe_workflow", topic.id)
  ELSE Msg("join_room", topic.id)

Topics ==
  IF variant = "userId"
  THEN {[kind |-> "task", id |-> "A"], [kind |-> "workflow", id |-> "B"]}
  ELSE {[kind |-> "room", id |-> "lab1"]}

\* subscribeToTask / subscribeToWorkflow / joinRoom called by the caller
Subscribe(topic) ==
  /\ topic \in Topics
  /\ SendMessage(SubscribeMsg(topic))
  /\ asked' = IF \E i \in 1..Len(asked) : asked[i] = topic THEN asked ELSE Append(asked, topic)

\* leaveRoom called by the caller (the userId hook has no unsubscribe)
Unsubscribe(topic) ==
  /\ variant = "url"
  /\ topic \in Topics
  /\ phase = "mounted"
  /\ LET w == leaveRoom(World, rSocket, topic.id) IN
       /\ Commit(w)
       /\ lastSend' =
            [called |-> TRUE,
             type |-> "leave_room",
             open |-> (\E s \in SocketIds : readyState[s] = "OPEN"),
             transmitted |-> (w.sent # sent),
             result |-> sendResultUrl(World, rSocket)]
  /\ asked' = SelectSeq(asked, LAMBDA t : t # topic)
  /\ UNCHANGED <<cfgVars, projVars, renderVars, phase, userDisconnected, activeAtOpen>>

\* markNotificationRead / getRoomInfo called by the caller
Request ==
  /\ SendMessage(IF variant = "userId" THEN Msg("mark_notification_read", "1")
                 ELSE Msg("get_room_info", "lab1"))
  /\ UNCHANGED asked

Next ==
  \/ Mount
  \/ Render
  \/ Unmount
  \/ Connect
  \/ Disconnect
  \/ \E s \in SocketIds : TransportOpen(s)
  \/ \E s \in SocketIds : TransportFail(s)
  \/ \E s \in SocketIds, code \in CloseCodes : TransportClose(s, code)
  \/ \E held \in BOOLEAN : ReconnectTimer(held)

Spec == Init /\ [][Next]_vars

\* the life cycle of a mounted instance whose caller calls nothing
NextAuto ==
  \/ Mount
  \/ Render
  \/ \E s \in SocketIds : TransportOpen(s)
  \/ \E s \in SocketIds : TransportFail(s)
  \/ \E s \in SocketIds, code \in CloseCodes : TransportClose(s, code)
  \/ \E held \in BOOLEAN : ReconnectTimer(held)

SpecAuto == Init /\ [][NextAuto]_vars

\* the caller's commands over the connection life cycle
CommandsBounded ==
  /\ Cardinality(Created(readyState')) <= MaxSocketsCommands
  /\ \A s \in SocketIds : Len(sent'[s]) <= MaxSentCommands

NextCommands ==
  \/ Mount
  \/ Render /\ CommandsBounded
  \/ \E s \in SocketIds : TransportOpen(s)
  \/ \E s \in SocketIds : TransportFail(s)
  \/ \E held \in BOOLEAN : ReconnectTimer(held) /\ CommandsBounded
  \/ \E kind \in {"task", "workflow", "room"}, id \in {"A", "B", "lab1"} :
        Subscribe([kind |-> kind, id |-> id]) /\ CommandsBounded
  \/ Request /\ CommandsBounded

SpecCommands == Init /\ [][NextCommands]_vars

\* the life cycle with the heartbeat intervals ticking
NextHeartbeat ==
  \/ Mount
  \/ Render /\ CommandsBounded
  \/ \E s \in SocketIds : TransportOpen(s)
  \/ \E s \in SocketIds : TransportFail(s)
  \/ \E held \in BOOLEAN : ReconnectTimer(held) /\ CommandsBounded
  \/ \E s \in SocketIds : HeartbeatTick(s) /\ CommandsBounded

SpecHeartbeat == Init /\ [][NextHeartbeat]_vars

\* the url hook with a caller that joins and leaves a room
InitUrl == Init /\ variant = "url" /\ urlOk

RECURSIVE TotalSent(_, _)
TotalSent(snt, S) ==
  IF S = {} THEN 0
  ELSE LET s == CHOOSE x \in S : TRUE IN Len(snt[s]) + TotalSent(snt, S \ {s})

RoomsBounded ==
  /\ Cardinality(Created(readyState')) <= MaxSocketsRooms
  /\ TotalSent(sent', SocketIds) <= MaxSentRooms

NextRooms ==
  \/ Mount
  \/ Render /\ RoomsBounded
  \/ \E s \in SocketIds : TransportOpen(s)
  \/ \E s \in SocketIds : TransportFail(s)
  \/ \E held \in BOOLEAN : ReconnectTimer(held) /\ RoomsBounded
  \/ \E topic \in Topics : Subscribe(topic) /\ RoomsBounded
  \/ \E topic \in Topics : Unsubscribe(topic) /\ RoomsBounded

SpecRooms == InitUrl /\ [][NextRooms]_vars

\* the url hook receiving frames over its life cycle
NextHistory ==
  \/ Mount
  \/ Render /\ RoomsBounded
  \/ \E s \in SocketIds : TransportOpen(s)
  \/ \E s \in SocketIds : TransportFail(s)
  \/ \E held \in BOOLEAN : ReconnectTimer(held) /\ RoomsBounded
  \/ \E s \in SocketIds : UrlFrame(s)
  \/ \E s \in SocketIds, frame \in BadFrames : BadFrameUrl(s, frame)

SpecHistory == InitUrl /\ [][NextHistory]_vars

\* either hook, connected, receiving every kind of frame
InitOk == Init /\ urlOk

NextInbox ==
  \/ Mount
  \/ TransportOpen(1)
  \/ NotificationFrame(1)
  \/ \E k \in InitialSizes : InitialNotificationsFrame(1, k)
  \/ \E d \in Payloads : UpdateFrame(1, "task", "A", d)
  \/ \E type \in PlainTypes : PlainFrame(1, type)
  \/ \E frame \in BadFrames : BadFrameUserId(1, frame)
  \/ UrlFrame(1)
  \/ \E frame \in BadFrames : BadFrameUrl(1, frame)

SpecInbox == InitOk /\ [][NextInbox]_vars

\* the notification feed of a connected userId hook
InitUserId == Init /\ variant = "userId" /\ urlOk

NextFeed ==
  \/ Mount
  \/ TransportOpen(1)
  \/ NotificationFrame(1)
  \/ \E ok \in BOOLEAN, id \in 1..MaxNotifications : MarkedReadFrame(1, ok, id)

SpecFeed == InitUserId /\ [][NextFeed]_vars

\* the feed of a connected userId hook whose user marks recent notifications:
\* the two the server sent last, and the one it has not sent yet
RecentIds == {id \in 1..MaxNotifications : id \in (nextId - 1)..(nextId + 1)}

NextRead ==
  \/ Mount
  \/ TransportOpen(1)
  \/ NotificationFrame(1)
  \/ \E ok \in BOOLEAN, id \in RecentIds : MarkedReadFrame(1, ok, id)

SpecRead == InitUserId /\ [][NextRead]_vars

\* the progress maps of a connected userId hook
NextProgress ==
  \/ Mount
  \/ TransportOpen(1)
  \/ \E kind \in {"task", "workflow"}, k \in EntityKeys, d \in Payloads :
        UpdateFrame(1, kind, k, d)

SpecProgress == InitUserId /\ [][NextProgress]_vars

\* ================================================================ claims

\* C1: at most one transport of the instance is CONNECTING or OPEN.
C1_SingleLiveSocket == Cardinality(Live(readyState)) <= 1

\* C2: after the caller's disconnect(), and until the caller's next
\* connect(), no reconnect timer is armed and no transport is created.
C2_NoReconnectAfterDisconnect ==
  [][(userDisconnected /\ userDisconnected')
       => (timers' <= timers /\ Created(readyState') = Created(readyState))]_vars

\* C3: the attempt counter never exceeds the ceiling, and a step taken with
\* the counter at the ceiling arms no reconnect timer.
C3_AttemptsBounded ==
  [][/\ reconnectAttempts' <= maxReconnectAttempts
     /\ (reconnectAttempts = maxReconnectAttempts => timers' <= timers)]_vars

\* the default ceiling was reached and the close that followed armed nothing
C3_Witness ==
  /\ maxReconnectAttempts = maxReconnectAttemptsDefault
  /\ reconnectAttempts = maxReconnectAttempts
  /\ timers = 0
  /\ Pending(readyState) = {}
  /\ Cardinality(Created(readyState)) = maxReconnectAttempts + 1

\* C4: every step that takes a transport to OPEN leaves the attempt counter
\* at zero, and the first retry armed after an OPEN uses attempt number 1.
C4_OpenResetsAttempts ==
  [][/\ (\E s \in SocketIds : readyState[s] = "CONNECTING" /\ readyState'[s] = "OPEN")
          => reconnectAttempts' = 0
     /\ (retriesSinceOpen' = 1 => reconnectAttempts' = 1)]_vars

\* retries preceded the last OPEN, and one retry was armed after it
C4_Witness == reopened /\ retriesSinceOpen = 1 /\ timers > 0

\* C5: under notification-kind messages the feed never holds more than 50
\* entries; a new record goes first, the entries behind it are the previous
\* ones in their order, and once the feed is full exactly the last is evicted.
C5_FeedCapped ==
  [][/\ Len(notifications') <= FeedCap
     /\ nextId' # nextId =>
          /\ Head(notifications').id = nextId'
          /\ Len(notifications') = Min(Len(notifications) + 1, FeedCap)
          /\ Tail(notifications') = SubSeq(notifications, 1, Len(notifications') - 1)]_vars

\* the feed is full and the oldest record has been evicted
C5_Witness ==
  /\ Len(notifications) = FeedCap
  /\ nextId > FeedCap
  /\ \A i \in 1..Len(notifications) : notifications[i].id # 1

\* C6: the entry of each key is the data of the last update message
\* processed for that key, whole (no merge with the previous payload).
C6_LastWriteWins ==
  \A k \in EntityKeys :
    /\ taskUpdates[k] = lastSeen["task"][k]
    /\ workflowUpdates[k] = lastSeen["workflow"][k]

\* a key was written twice, the second payload lacking a field of the first
C6_Witness ==
  /\ prevSeen["task"]["A"] = [status |-> "running", progress |-> "absent"]
  /\ taskUpdates["A"] = [status |-> "absent", progress |-> "50"]
  /\ taskUpdates["B"] = NoEntry

\* the subscribe frames the instance has put on the transport it holds: the
\* only record the hooks keep of a subscribe call
SubscribeFrames ==
  IF socket = Null THEN << >>
  ELSE SelectSeq(sent[socket],
                 LAMBDA m : m.type \in {"subscribe_task", "subscribe_workflow", "join_room"})

FramesFor(topics) == [i \in 1..Len(topics) |-> SubscribeMsg(topics[i])]
IsPrefix(a, b) == Len(a) <= Len(b) /\ SubSeq(b, 1, Len(a)) = a
Settled == phase = "mounted" /\ socket = rSocket /\ isConnected = rIsConnected

\* C7: every topic the caller subscribed to has exactly one entry held by
\* the client, however often it was subscribed and whatever the connection did.
C7_OneEntryPerSubscription ==
  Settled =>
    \A i \in 1..Len(asked) :
      Cardinality({j \in 1..Len(SubscribeFrames) : SubscribeFrames[j] = SubscribeMsg(asked[i])}) = 1

\* C8: the subscriptions active when a transport reached OPEN are sent on it,
\* once each and in order, before anything else is subscribed on it.
C8_ReplayOnOpen ==
  (Settled /\ socket # Null /\ readyState[socket] = "OPEN")
    => IsPrefix(FramesFor(activeAtOpen), SubscribeFrames)

\* C9: connect() called while a transport is CONNECTING or OPEN changes
\* nothing: no transport is created, counter and timers stay.
C9_ConnectIsNoOpWhenLive ==
  [][(Connect /\ Live(readyState) # {})
       => UNCHANGED <<readyState, reconnectAttempts, timers, heartbeats>>]_vars

\* C10: sendMessage transmits only when a transport is OPEN; otherwise it
\* transmits nothing, does not throw, and returns something a successful
\* send does not return.
C10_SendReportsFailure ==
  lastSend.called =>
    /\ lastSend.transmitted => lastSend.open
    /\ ~lastSend.open =>
         /\ ~lastSend.transmitted
         /\ lastSend.result \notin {"throw", SuccessResult}

\* C11: once the instance is unmounted, no reconnect timer and no heartbeat
\* timer of it is pending, none of its transports is CONNECTING or OPEN, and
\* it creates no transport.
C11_UnmountedIsQuiet ==
  [][phase' = "unmounted" =>
       /\ timers' = 0
       /\ HeartbeatTimers' = {}
       /\ Live(readyState') = {}
       /\ (phase = "unmounted" => Created(readyState') = Created(readyState))]_vars

\* the frames about a topic handed to transport s
TopicFrames(s, topic) ==
  SelectSeq(sent[s], LAMBDA m : m.arg = topic.id /\ m.type \in {SubscribeMsg(topic).type, "leave_room"})
\* the client holds an entry for the topic: the last frame about it on the
\* transport it holds is a subscribe
HoldsEntry(topic) ==
  /\ socket # Null
  /\ TopicFrames(socket, topic) # << >>
  /\ TopicFrames(socket, topic)[Len(TopicFrames(socket, topic))] = SubscribeMsg(topic)
\* the subscribe frames for a topic on each transport
JoinsSent(topic) ==
  [s \in SocketIds |-> SelectSeq(sent[s], LAMBDA m : m = SubscribeMsg(topic))]

C13_TerminalStatusAtCeiling ==
  [][(/\ phase = "mounted"
      /\ reconnectAttempts = maxReconnectAttempts
      /\ \E s \in SocketIds : readyState[s] # "CLOSED" /\ readyState'[s] = "CLOSED")
       => /\ timers' <= timers
          /\ connectionError' = "Max reconnection attempts reached"]_vars

\* C14: while the instance is mounted, isConnected is true exactly when a
\* transport of the instance is OPEN, and it turns true only in a step that
\* takes a transport to OPEN.
C14_ConnectedIffOpen ==
  [][/\ phase' = "mounted" => (isConnected' <=> \E s \in SocketIds : readyState'[s] = "OPEN")
     /\ (~isConnected /\ isConnected') =>
          \E s \in SocketIds : readyState[s] = "CONNECTING" /\ readyState'[s] = "OPEN"]_vars

\* C15: a connect() call by the caller made with the attempt counter at the
\* ceiling leaves the counter at zero, so that the next involuntary close
\* arms a retry with attempt number 1.
C15_ManualConnectResets ==
  [][(Connect /\ reconnectAttempts = maxReconnectAttempts) => reconnectAttempts' = 0]_vars

\* C16: a re-render that finds the instance holding an OPEN transport creates
\* and closes nothing: the transports stay as they are, the instance still
\* holds that transport with isConnected true, and its heartbeat timer runs.
C16_RenderKeepsConnection ==
  [][(Render /\ isConnected /\ socket # Null /\ readyState[socket] = "OPEN")
       => /\ readyState' = readyState
          /\ socket' = socket
          /\ isConnected'
          /\ socket \in HeartbeatTimers']_vars

\* C17: the retry armed by an involuntary close is neither cancelled nor
\* doubled by the client's own handling of the close: a re-render leaves the
\* pending reconnect timers alone and creates no transport while one is
\* pending, and a timer that fires starts exactly one connection attempt.
C17_RetryNeitherLostNorDoubled ==
  [][/\ Render =>
          /\ timers' = timers
          /\ timers > 0 => Created(readyState') = Created(readyState)
     /\ (\E held \in BOOLEAN : ReconnectTimer(held)) =>
          /\ Cardinality(Created(readyState')) = Cardinality(Created(readyState)) + 1
          /\ Cardinality(Live(readyState')) = Cardinality(Live(readyState)) + 1]_vars

\* C18: a disconnect() call made while a transport is CONNECTING or OPEN
\* leaves none CONNECTING or OPEN and isConnected false; from then until the
\* caller's next connect() no transport reaches OPEN and isConnected stays
\* false.
C18_DisconnectCloses ==
  [][/\ (Disconnect /\ Live(readyState) # {}) =>
          /\ Live(readyState') = {}
          /\ ~isConnected'
     /\ (userDisconnected /\ userDisconnected') =>
          /\ ~isConnected'
          /\ \A s \in SocketIds : readyState'[s] = "OPEN" => readyState[s] = "OPEN"]_vars

\* C19: a heartbeat timer is pending only while the transport it pings is
\* OPEN (in the userId hook, where the timer belongs to an effect, once the
\* pending re-render has been committed).
C19_HeartbeatOnlyWhileOpen ==
  (variant = "url" \/ Settled) => \A s \in HeartbeatTimers : readyState[s] = "OPEN"

\* a newer transport of the instance is OPEN
Replaced(s) == \E t \in SocketIds : t > s /\ readyState[t] = "OPEN"

\* C20: a tick of a heartbeat timer whose transport is OPEN puts exactly one
\* ping on that transport, which has not been replaced; a tick whose
\* transport is not OPEN puts nothing on any transport.
C20_TickPingsLiveTransport ==
  [][\A s \in SocketIds :
       HeartbeatTick(s) =>
         IF readyState[s] = "OPEN"
         THEN /\ sent' = [sent EXCEPT ![s] = Append(@, Ping)]
              /\ ~Replaced(s)
         ELSE sent' = sent]_vars

\* C21: a close event arms a retry exactly when its code is not the
\* normal-closure code and the attempt counter is below the ceiling.
C21_RetryIffNotNormalClosure ==
  [][/\ \A s \in SocketIds, code \in CloseCodes :
          TransportClose(s, code) =>
            (timers' = timers + 1
               <=> (code # NormalClosure /\ reconnectAttempts < maxReconnectAttempts))
     /\ \A s \in SocketIds :
          TransportFail(s) =>
            (timers' = timers + 1 <=> reconnectAttempts < maxReconnectAttempts)
     /\ timers' <= timers + 1]_vars

\* C22: a connect() whose transport construction throws leaves no transport
\* CONNECTING or OPEN, sets the error field, and counts as a failure: below
\* the ceiling the attempt counter is incremented and a retry is armed.
C22_ConstructionFailureCounts ==
  [][(~urlOk /\ (Mount \/ Connect \/ \E held \in BOOLEAN : ReconnectTimer(held))) =>
       /\ Live(readyState') = {}
       /\ connectionError' # "null"
       /\ reconnectAttempts < maxReconnectAttempts =>
            /\ reconnectAttempts' = reconnectAttempts + 1
            /\ timers' = timers + 1]_vars

\* C23: a close or error event of a transport the client has not closed
\* itself (no disconnect() by the caller, the transport not CLOSING, a close
\* code other than normal closure) leaves the error field of the mounted
\* instance set, whether or not an error event came first and retries remain.
C23_ErrorFieldSetOnFailure ==
  [][\A s \in SocketIds :
       (/\ phase = "mounted"
        /\ ~userDisconnected
        /\ readyState[s] \in {"CONNECTING", "OPEN"}
        /\ \/ TransportFail(s)
           \/ \E code \in CloseCodes \ {NormalClosure} : TransportClose(s, code))
         => connectionError' # "null"]_vars

\* C24: a message event whose frame is not JSON, or is JSON without a `type`
\* member, changes nothing of the projection (feed, progress maps, message
\* history, last message) and leaves the transports and isConnected as they are.
C24_BadFramesDropped ==
  [][(\E s \in SocketIds, frame \in BadFrames :
        BadFrameUserId(s, frame) \/ OnMessageUrl(s, frame))
       => UNCHANGED <<notifications, taskUpdates, workflowUpdates, messageHistory,
                      lastMessage, readyState, isConnected>>]_vars

\* the types neither hook has a case for
UnknownTypes == {"mystery", "analysis_update", "room_info"}

\* C25: a message whose type the hook has no case for leaves the feed, both
\* progress maps, isConnected, the error field and the transports unchanged,
\* and the message after it is processed as usual.
C25_UnknownTypeIgnored ==
  [][/\ (lastFrame' \in UnknownTypes /\ (PlainFrame(1, "mystery") \/ UrlFrame(1)))
          => UNCHANGED <<notifications, taskUpdates, workflowUpdates, isConnected,
                         connectionError, readyState, socket>>
     /\ (lastFrame \in UnknownTypes /\ NotificationFrame(1))
          => notifications' = Prepend(notifications, Notification(nextId + 1))
     /\ (lastFrame \in UnknownTypes /\ UrlFrame(1))
          => messageHistory'[Len(messageHistory')] = UrlMessage(parsed + 1)]_vars

\* a message of unknown type has just arrived at a hook that holds records
C25_Witness ==
  /\ lastFrame \in UnknownTypes
  /\ \/ Len(notifications) > 1 /\ taskUpdates["A"] # NoEntry
     \/ connectionError = "server error" /\ isConnected

\* C26: notification_marked_read with success sets read on exactly the feed
\* entries whose id is notification_id; length, order and every other entry
\* stay as they were, and without success or without a match nothing changes.
C26_MarkReadExact ==
  [][\A ok \in BOOLEAN, id \in RecentIds :
       MarkedReadFrame(1, ok, id) =>
         /\ Len(notifications') = Len(notifications)
         /\ \A i \in 1..Len(notifications) :
              notifications'[i] =
                IF ok /\ notifications[i].id = id
                  THEN [notifications[i] EXCEPT !.read = TRUE]
                  ELSE notifications[i]]_vars

\* one entry of a longer feed has been marked, the others have not
C26_Witness ==
  /\ lastFrame = "notification_marked_read"
  /\ Len(notifications) > 2
  /\ \E i \in 1..Len(notifications) :
       /\ notifications[i].read
       /\ \A j \in 1..Len(notifications) : j # i => ~notifications[j].read

\* C27: a pong message changes nothing observable: the feed, the progress
\* maps, the connection status, the error field, the last-message field and
\* the message history are the same after it as before.
C27_PongChangesNothing ==
  [][(lastFrame' = "pong" /\ (PlainFrame(1, "pong") \/ UrlFrame(1)))
       => UNCHANGED <<notifications, taskUpdates, workflowUpdates, isConnected,
                      connectionError, lastMessage, messageHistory>>]_vars

\* base delay and growth factor of the retry policy, as each hook names them
baseDelay == IF variant = "userId" THEN 1000 ELSE reconnectInterval
growthFactor == 2

\* C28: each retry is scheduled after base_delay * growth_factor^k, with k the
\* attempt counter after the increment, so that each delay of a run of
\* consecutive failures is growth_factor times the one before.
C28_ExponentialBackoff ==
  [][timers' = timers + 1 =>
       /\ lastDelay' = baseDelay * Pow(growthFactor, reconnectAttempts')
       /\ reconnectAttempts > 0 => lastDelay' = growthFactor * lastDelay]_vars

\* C29: whatever messages have arrived, an initial_notifications list of any
\* length among them, the notification feed holds at most 50 entries.
C29_FeedNeverExceedsCap == Len(notifications) <= FeedCap

\* C30: in the url hook the message history holds the last min(n, 100) of the
\* n frames parsed so far, oldest first, whatever transports delivered them.
C30_HistoryIsLastHundred ==
  variant = "url" =>
    /\ Len(messageHistory) = Min(parsed, HistoryCap)
    /\ messageHistory = SliceLast(received, HistoryCap)

\* more than 100 frames have been parsed, the oldest are gone, and the hook
\* is on its second transport or a later one
C30_Witness ==
  /\ variant = "url"
  /\ parsed > HistoryCap
  /\ Len(messageHistory) = HistoryCap
  /\ messageHistory[1] = received[parsed - HistoryCap + 1]
  /\ Cardinality(Created(readyState)) > 1

====
